---- MODULE Spec2Model ----
(***************************************************************************)
(* Model of the stock portfolio tracker's core (src/src/portfolio_manager  *)
(* .py): the store of portfolios, transactions and snapshots, and the five *)
(* operations create_portfolio, add_transaction, get_portfolio_holdings,   *)
(* get_portfolio_performance and save_portfolio_snapshot, with the price   *)
(* lookup of src/src/stock_fetcher.py and the snapshot listing of the      *)
(* history tab (src/src/app.py).                                           *)
(*                                                                         *)
(* Numbers: the program computes with Python floats.  The model computes   *)
(* with exact rationals <<numerator, denominator>> in lowest terms, i.e.   *)
(* the arithmetic of the program without the rounding of the last bit.     *)
(* Strings whose case matters (ticker, transaction_type) are sequences of  *)
(* one-character strings, so that upper() and lower() are computed.        *)
(***************************************************************************)
EXTENDS Integers, Sequences, FiniteSets, TLC

VARIABLES portfolios, transactions, snapshots, last

vars == <<portfolios, transactions, snapshots, last>>

(***************************************************************************)
(* Bounds of the model.                                                    *)
(***************************************************************************)
\* portfolios that are created
MaxPortfolios == 2

\* rows that are written to the store, over the three tables
MaxWrites == 4

\* transactions of a ledger that is drawn rather than built
MaxLedger == 3

(***************************************************************************)
(* Python's None and a value that is not None.                             *)
(***************************************************************************)
NoneVal == [isNone |-> TRUE, val |-> <<>>]

Some(v) == [isNone |-> FALSE, val |-> v]

(***************************************************************************)
(* Float arithmetic, as exact rationals in lowest terms.                   *)
(***************************************************************************)
Abs(x) == IF x < 0 THEN -x ELSE x

RECURSIVE GCD(_, _)
GCD(a, b) == IF b = 0 THEN a ELSE GCD(b, a % b)

Rat(n, d) ==
    LET g == GCD(Abs(n), Abs(d))
        s == IF d < 0 THEN -1 ELSE 1
    IN  <<(s * n) \div g, (s * d) \div g>>

Num(n) == <<n, 1>>

Zero == Num(0)

Add(a, b) == Rat(a[1] * b[2] + b[1] * a[2], a[2] * b[2])

Sub(a, b) == Rat(a[1] * b[2] - b[1] * a[2], a[2] * b[2])

Mul(a, b) == Rat(a[1] * b[1], a[2] * b[2])

Div(a, b) == Rat(a[1] * b[2], a[2] * b[1])

Gt0(a) == a[1] > 0

(***************************************************************************)
(* str.upper() and str.lower() on the characters the model uses.           *)
(***************************************************************************)
UpperChar(c) ==
    CASE c = "a" -> "A" [] c = "b" -> "B" [] c = "d" -> "D" [] c = "e" -> "E"
      [] c = "h" -> "H" [] c = "l" -> "L" [] c = "m" -> "M" [] c = "o" -> "O"
      [] c = "s" -> "S" [] c = "u" -> "U" [] c = "y" -> "Y" [] OTHER -> c

LowerChar(c) ==
    CASE c = "A" -> "a" [] c = "B" -> "b" [] c = "D" -> "d" [] c = "E" -> "e"
      [] c = "H" -> "h" [] c = "L" -> "l" [] c = "M" -> "m" [] c = "O" -> "o"
      [] c = "S" -> "s" [] c = "U" -> "u" [] c = "Y" -> "y" [] OTHER -> c

upper(s) == [i \in DOMAIN s |-> UpperChar(s[i])]

lower(s) == [i \in DOMAIN s |-> LowerChar(s[i])]

buy == <<"b", "u", "y">>

sell == <<"s", "e", "l", "l">>

(***************************************************************************)
(* The store.  Primary keys are autoincrement integers: the id of a row    *)
(* is its position in the table, no core operation deletes a row.          *)
(***************************************************************************)
Portfolio(id, name) == [id |-> id, name |-> name]

Transaction(portfolio_id, ticker, transaction_type, shares, price_per_share, transaction_date) ==
    [portfolio_id |-> portfolio_id, ticker |-> ticker,
     transaction_type |-> transaction_type, shares |-> shares,
     price_per_share |-> price_per_share,
     transaction_date |-> transaction_date]

PortfolioSnapshot(id, portfolio_id, total_value, snapshot_date) ==
    [id |-> id, portfolio_id |-> portfolio_id, total_value |-> total_value,
     snapshot_date |-> snapshot_date]

(***************************************************************************)
(* Faults.  Every function is one try block with one `except Exception`.   *)
(* fault names the statement that raises during a call, if any: a store    *)
(* statement (a query, a commit, the reload of a committed row) or the     *)
(* construction of a frame.  A try block ends by returning a value or by   *)
(* raising; Except is the handler that turns the raise into the value the  *)
(* function returns on failure.                                            *)
(***************************************************************************)
NoFault == "none"

Return(value) == [raised |-> FALSE, ret |-> value]

Raise == [raised |-> TRUE, ret |-> NoneVal]

\* Except without a handler: the exception leaves the function
Except_Reraise(outcome, failed) == outcome

\* except Exception as e: print(...); return <failed>
Except(outcome, failed) ==
    IF outcome.raised
    THEN [outcome EXCEPT !.raised = FALSE, !.ret = failed]
    ELSE outcome

\* session.query(Portfolio).filter_by(id=portfolio_id).first() is not None
PortfolioExists(ports, portfolio_id) ==
    \E i \in DOMAIN ports : ports[i].id = portfolio_id

(***************************************************************************)
(* get_portfolio_holdings: the ledger of one portfolio, ordered by         *)
(* transaction_date, folded into a dict ticker -> {total_shares,           *)
(* total_cost}.  The dict is a sequence of entries in insertion order.     *)
(***************************************************************************)
\* filter_by keeping the rows of every portfolio
filter_by_AllPortfolios(txns, portfolio_id) == txns

\* filter_by(portfolio_id=portfolio_id), rows in storage order
RECURSIVE filter_by(_, _)
filter_by(txns, portfolio_id) ==
    IF txns = <<>> THEN <<>>
    ELSE IF Head(txns).portfolio_id = portfolio_id
         THEN <<Head(txns)>> \o filter_by(Tail(txns), portfolio_id)
         ELSE filter_by(Tail(txns), portfolio_id)

\* one row put into a sequence sorted by date, after the rows of the same date
RECURSIVE InsertByDate(_, _)
InsertByDate(sorted, txn) ==
    IF sorted = <<>> THEN <<txn>>
    ELSE IF Head(sorted).transaction_date <= txn.transaction_date
         THEN <<Head(sorted)>> \o InsertByDate(Tail(sorted), txn)
         ELSE <<txn>> \o sorted

\* order_by leaving the rows in storage order
order_by_Unsorted(txns) == txns

\* order_by(Transaction.transaction_date): ascending, ties in storage order
RECURSIVE order_by(_)
order_by(txns) ==
    IF txns = <<>> THEN <<>>
    ELSE InsertByDate(order_by(SubSeq(txns, 1, Len(txns) - 1)),
                      txns[Len(txns)])

HasTicker(holdings, ticker) ==
    \E i \in DOMAIN holdings : holdings[i].ticker = ticker

IndexOf(holdings, ticker) ==
    CHOOSE i \in DOMAIN holdings : holdings[i].ticker = ticker

\* if ticker not in holdings: holdings[ticker] = {total_shares: 0, total_cost: 0}
EnsureTicker(holdings, ticker) ==
    IF HasTicker(holdings, ticker) THEN holdings
    ELSE Append(holdings,
                [ticker |-> ticker, total_shares |-> Zero, total_cost |-> Zero])

\* ApplyBuy adding the price once instead of once per share
ApplyBuy_PriceOnce(entry, txn) ==
    [entry EXCEPT
        !.total_shares = Add(@, Num(txn.shares)),
        !.total_cost = Add(@, Num(txn.price_per_share))]

\* the 'buy' branch
ApplyBuy(entry, txn) ==
    [entry EXCEPT
        !.total_shares = Add(@, Num(txn.shares)),
        !.total_cost = Add(@, Mul(Num(txn.shares), Num(txn.price_per_share)))]

\* ApplySell taking the proceeds of the sell off the cost
ApplySell_AtSellPrice(entry, txn) ==
    IF Gt0(entry.total_shares)
    THEN [entry EXCEPT
            !.total_shares = Sub(@, Num(txn.shares)),
            !.total_cost = Sub(@, Mul(Num(txn.shares),
                                      Num(txn.price_per_share)))]
    ELSE entry

\* ApplySell selling no more than the shares held
ApplySell_Clamped(entry, txn) ==
    IF Gt0(entry.total_shares)
    THEN IF Gt0(Sub(Num(txn.shares), entry.total_shares))
         THEN [entry EXCEPT !.total_shares = Zero, !.total_cost = Zero]
         ELSE LET avg_cost == Div(entry.total_cost, entry.total_shares)
              IN  [entry EXCEPT
                     !.total_shares = Sub(@, Num(txn.shares)),
                     !.total_cost = Sub(@, Mul(Num(txn.shares), avg_cost))]
    ELSE entry

\* ApplySell taking the shares off even when none are held
ApplySell_AlwaysSubtracts(entry, txn) ==
    IF Gt0(entry.total_shares)
    THEN LET avg_cost == Div(entry.total_cost, entry.total_shares)
         IN  [entry EXCEPT
                !.total_shares = Sub(@, Num(txn.shares)),
                !.total_cost = Sub(@, Mul(Num(txn.shares), avg_cost))]
    ELSE [entry EXCEPT !.total_shares = Sub(@, Num(txn.shares))]

\* the 'sell' branch: average cost, or the warning that changes nothing
ApplySell(entry, txn) ==
    IF Gt0(entry.total_shares)
    THEN LET avg_cost == Div(entry.total_cost, entry.total_shares)
         IN  [entry EXCEPT
                !.total_shares = Sub(@, Num(txn.shares)),
                !.total_cost = Sub(@, Mul(Num(txn.shares), avg_cost))]
    ELSE entry

\* the body of the loop over the transactions
FoldStep(holdings, txn) ==
    LET h == EnsureTicker(holdings, txn.ticker)
        i == IndexOf(h, txn.ticker)
    IN  IF txn.transaction_type = buy
        THEN [h EXCEPT ![i] = ApplyBuy(@, txn)]
        ELSE IF txn.transaction_type = sell
             THEN [h EXCEPT ![i] = ApplySell(@, txn)]
             ELSE h

\* for txn in transactions, over the prefix of length n
RECURSIVE FoldLedger(_, _)
FoldLedger(txns, n) ==
    IF n = 0 THEN <<>>
    ELSE FoldStep(FoldLedger(txns, n - 1), txns[n])

\* the row appended to data for one entry of the dict
HoldingRow(entry) ==
    [ticker |-> entry.ticker,
     total_shares |-> entry.total_shares,
     avg_cost_basis |-> IF Gt0(entry.total_shares)
                        THEN Div(entry.total_cost, entry.total_shares)
                        ELSE Zero,
     total_cost |-> entry.total_cost]

\* IsHeld keeping the tickers that are sold out
IsHeld_OrSoldOut(entry) == entry.total_shares[1] >= 0

\* if values['total_shares'] > 0
IsHeld(entry) == Gt0(entry.total_shares)

\* the DataFrame: one row per entry with shares, in dict order
RECURSIVE HoldingsFrame(_)
HoldingsFrame(holdings) ==
    IF holdings = <<>> THEN <<>>
    ELSE IF IsHeld(Head(holdings))
         THEN <<HoldingRow(Head(holdings))>> \o HoldingsFrame(Tail(holdings))
         ELSE HoldingsFrame(Tail(holdings))

\* get_portfolio_holdings without the check that the portfolio exists
get_portfolio_holdings_Unchecked(ports, txns, portfolio_id, fault) ==
    Except(IF fault = "holdings.query" THEN Raise
           ELSE LET ledger == order_by(filter_by(txns, portfolio_id))
                IN  IF ledger = <<>> THEN Return(Some(<<>>))
                    ELSE Return(Some(HoldingsFrame(
                                    FoldLedger(ledger, Len(ledger))))),
           NoneVal)

\* get_portfolio_holdings returning None for a ledger without transactions
get_portfolio_holdings_EmptyIsNone(ports, txns, portfolio_id, fault) ==
    Except(IF fault = "holdings.query" THEN Raise
           ELSE IF ~PortfolioExists(ports, portfolio_id) THEN Return(NoneVal)
           ELSE LET ledger == order_by(filter_by(txns, portfolio_id))
                IN  IF ledger = <<>> THEN Return(NoneVal)
                    ELSE Return(Some(HoldingsFrame(
                                    FoldLedger(ledger, Len(ledger))))),
           NoneVal)

get_portfolio_holdings(ports, txns, portfolio_id, fault) ==
    Except(IF fault = "holdings.query" THEN Raise
           ELSE IF ~PortfolioExists(ports, portfolio_id) THEN Return(NoneVal)
           ELSE LET ledger == order_by(filter_by(txns, portfolio_id))
                IN  IF ledger = <<>> THEN Return(Some(<<>>))
                    ELSE Return(Some(HoldingsFrame(
                                    FoldLedger(ledger, Len(ledger))))),
           NoneVal)

(***************************************************************************)
(* get_portfolio_performance.  quote is the price source at the time of    *)
(* the call: for each ticker, what stock.history(period="1d") does, which  *)
(* is to return rows with a last close, to return no rows, or to raise.    *)
(***************************************************************************)
Close(price) == [kind |-> "close", val |-> price]

NoData == [kind |-> "empty", val |-> 0]

HistoryRaises == [kind |-> "raises", val |-> 0]

\* a price, or None when there is no data and when the lookup raised
get_current_price(quote, ticker) ==
    IF quote[ticker].kind = "raises" THEN NoneVal
    ELSE IF quote[ticker].kind = "empty" THEN NoneVal
    ELSE Some(quote[ticker].val)

\* the dict appended to performance_data for a priced row
PerformanceRow(row, current_price) ==
    LET current_value == Mul(row.total_shares, current_price)
        gain_loss_dollar == Sub(current_value, row.total_cost)
    IN  [ticker |-> row.ticker,
         shares |-> row.total_shares,
         avg_cost_basis |-> row.avg_cost_basis,
         current_price |-> current_price,
         total_cost |-> row.total_cost,
         current_value |-> current_value,
         gain_loss_dollar |-> gain_loss_dollar,
         gain_loss_percent |-> IF Gt0(row.total_cost)
                               THEN Mul(Div(gain_loss_dollar, row.total_cost),
                                        Num(100))
                               ELSE Zero]

\* the state of the loop before its first iteration
PerformanceStart ==
    [performance_data |-> <<>>, total_cost |-> Zero,
     total_current_value |-> Zero, lookups |-> <<>>]

\* PerformanceStep counting the cost of a position that has no price
PerformanceStep_CostOfUnpriced(acc, row, quote) ==
    LET current_price == get_current_price(quote, row.ticker)
        looked == Append(acc.lookups,
                         [ticker |-> row.ticker, price |-> current_price])
    IN  IF current_price.isNone
        THEN [acc EXCEPT !.lookups = looked,
                         !.total_cost = Add(@, row.total_cost)]
        ELSE LET rec == PerformanceRow(row, Num(current_price.val))
             IN  [performance_data |-> Append(acc.performance_data, rec),
                  total_cost |-> Add(acc.total_cost, row.total_cost),
                  total_current_value |->
                      Add(acc.total_current_value, rec.current_value),
                  lookups |-> looked]

\* one iteration of the loop over holdings_df.iterrows()
PerformanceStep(acc, row, quote) ==
    LET current_price == get_current_price(quote, row.ticker)
        looked == Append(acc.lookups,
                         [ticker |-> row.ticker, price |-> current_price])
    IN  IF current_price.isNone
        THEN [acc EXCEPT !.lookups = looked]
        ELSE LET rec == PerformanceRow(row, Num(current_price.val))
             IN  [performance_data |-> Append(acc.performance_data, rec),
                  total_cost |-> Add(acc.total_cost, row.total_cost),
                  total_current_value |->
                      Add(acc.total_current_value, rec.current_value),
                  lookups |-> looked]

\* PerformanceLoop leaving the loop at the first ticker without a price
RECURSIVE PerformanceLoop_StopAtNone(_, _, _)
PerformanceLoop_StopAtNone(rows, quote, n) ==
    IF n = 0 THEN PerformanceStart
    ELSE LET acc == PerformanceLoop_StopAtNone(rows, quote, n - 1)
         IN  IF acc.lookups # <<>> /\ acc.lookups[Len(acc.lookups)].price.isNone
             THEN acc
             ELSE PerformanceStep(acc, rows[n], quote)

\* the loop over the first n rows
RECURSIVE PerformanceLoop(_, _, _)
PerformanceLoop(rows, quote, n) ==
    IF n = 0 THEN PerformanceStart
    ELSE PerformanceStep(PerformanceLoop(rows, quote, n - 1), rows[n], quote)

\* the returned dict, from the state of the loop after its last iteration
PerformanceResult(acc) ==
    LET total_gain_loss_dollar == Sub(acc.total_current_value, acc.total_cost)
    IN  [positions |-> acc.performance_data,
         total_cost |-> acc.total_cost,
         total_current_value |-> acc.total_current_value,
         total_gain_loss_dollar |-> total_gain_loss_dollar,
         total_gain_loss_percent |->
             IF Gt0(acc.total_cost)
             THEN Mul(Div(total_gain_loss_dollar, acc.total_cost), Num(100))
             ELSE Zero]

\* holdings_df is None or holdings_df.empty
NoHoldings(holdings_df) == holdings_df.isNone \/ holdings_df.val = <<>>

\* the loop's final state; no iteration when there are no holdings
PerformanceRun(ports, txns, portfolio_id, quote, fault) ==
    LET holdings_df == get_portfolio_holdings(ports, txns, portfolio_id,
                                              fault).ret
    IN  IF NoHoldings(holdings_df) THEN PerformanceStart
        ELSE PerformanceLoop(holdings_df.val, quote, Len(holdings_df.val))

\* get_portfolio_performance returning None when there are no holdings
get_portfolio_performance_NoneWhenEmpty(ports, txns, portfolio_id, quote, fault) ==
    Except(IF get_portfolio_holdings(ports, txns, portfolio_id, fault).raised
           THEN Raise
           ELSE IF NoHoldings(get_portfolio_holdings(ports, txns,
                                                     portfolio_id, fault).ret)
           THEN Return(NoneVal)
           ELSE IF fault = "performance.frame" THEN Raise
           ELSE Return(Some(PerformanceResult(
                           PerformanceRun(ports, txns, portfolio_id, quote,
                                          fault)))),
           NoneVal)

get_portfolio_performance(ports, txns, portfolio_id, quote, fault) ==
    Except(IF get_portfolio_holdings(ports, txns, portfolio_id, fault).raised
           THEN Raise
           ELSE IF fault = "performance.frame" THEN Raise
           ELSE Return(Some(PerformanceResult(
                           PerformanceRun(ports, txns, portfolio_id, quote,
                                          fault)))),
           NoneVal)

(***************************************************************************)
(* The operations that write.  Each yields the value returned and the      *)
(* table after the call.                                                   *)
(***************************************************************************)
\* create_portfolio giving every portfolio the identifier 1
create_portfolio_FixedId(ports, name, fault) ==
    Except(IF fault = "create.commit"
           THEN [raised |-> TRUE, ret |-> NoneVal, portfolios |-> ports]
           ELSE IF fault = "create.refresh"
           THEN [raised |-> TRUE, ret |-> NoneVal,
                 portfolios |-> Append(ports, Portfolio(1, name))]
           ELSE [raised |-> FALSE, ret |-> Some(1),
                 portfolios |-> Append(ports, Portfolio(1, name))],
           NoneVal)

\* the row is stored by the commit; the refresh reads it back
create_portfolio(ports, name, fault) ==
    LET id == Len(ports) + 1
    IN  Except(IF fault = "create.commit"
               THEN [raised |-> TRUE, ret |-> NoneVal, portfolios |-> ports]
               ELSE IF fault = "create.refresh"
               THEN [raised |-> TRUE, ret |-> NoneVal,
                     portfolios |-> Append(ports, Portfolio(id, name))]
               ELSE [raised |-> FALSE, ret |-> Some(id),
                     portfolios |-> Append(ports, Portfolio(id, name))],
               NoneVal)

\* transaction_type.lower() not in ['buy', 'sell']
BadType(transaction_type) == lower(transaction_type) \notin {buy, sell}

\* BadShares letting a quantity of zero through
BadShares_NegativeOnly(shares) == shares < 0

\* shares <= 0
BadShares(shares) == shares <= 0

\* BadPrice letting a price of zero through
BadPrice_NegativeOnly(price_per_share) == price_per_share < 0

\* price_per_share <= 0
BadPrice(price_per_share) == price_per_share <= 0

\* NewTransaction storing the ticker as it was given
NewTransaction_TickerAsGiven(portfolio_id, ticker, transaction_type, shares, price_per_share, transaction_date) ==
    Transaction(portfolio_id, ticker, lower(transaction_type), shares,
                price_per_share, transaction_date)

\* the row built from the arguments
NewTransaction(portfolio_id, ticker, transaction_type, shares, price_per_share, transaction_date) ==
    Transaction(portfolio_id, upper(ticker), lower(transaction_type), shares,
                price_per_share, transaction_date)

\* the value returned without a write
Refused(table_name, table) ==
    [n \in {"raised", "ret", table_name} |->
        IF n = table_name THEN table ELSE FALSE]

\* an exception raised before the commit
Failed(table_name, table) ==
    [n \in {"raised", "ret", table_name} |->
        IF n = table_name THEN table ELSE n = "raised"]

\* the value returned after the commit
Done(table_name, table) ==
    [n \in {"raised", "ret", table_name} |->
        IF n = table_name THEN table ELSE n = "ret"]

\* add_transaction without the check that the portfolio exists
add_transaction_Unchecked(ports, txns, portfolio_id, ticker, transaction_type, shares, price_per_share, transaction_date, fault) ==
    Except(IF BadType(transaction_type) THEN Refused("transactions", txns)
           ELSE IF BadShares(shares) THEN Refused("transactions", txns)
           ELSE IF BadPrice(price_per_share)
           THEN Refused("transactions", txns)
           ELSE IF fault = "add.query" THEN Failed("transactions", txns)
           ELSE Done("transactions",
                     Append(txns,
                            NewTransaction(portfolio_id, ticker,
                                           transaction_type, shares,
                                           price_per_share,
                                           transaction_date))),
           FALSE)

\* add_transaction putting the new row in front of the stored ones
add_transaction_Prepends(ports, txns, portfolio_id, ticker, transaction_type, shares, price_per_share, transaction_date, fault) ==
    Except(IF BadType(transaction_type) THEN Refused("transactions", txns)
           ELSE IF BadShares(shares) THEN Refused("transactions", txns)
           ELSE IF BadPrice(price_per_share)
           THEN Refused("transactions", txns)
           ELSE IF fault = "add.query" THEN Failed("transactions", txns)
           ELSE IF ~PortfolioExists(ports, portfolio_id)
           THEN Refused("transactions", txns)
           ELSE Done("transactions",
                     <<NewTransaction(portfolio_id, ticker, transaction_type,
                                      shares, price_per_share,
                                      transaction_date)>> \o txns),
           FALSE)

add_transaction(ports, txns, portfolio_id, ticker, transaction_type, shares, price_per_share, transaction_date, fault) ==
    Except(IF BadType(transaction_type) THEN Refused("transactions", txns)
           ELSE IF BadShares(shares) THEN Refused("transactions", txns)
           ELSE IF BadPrice(price_per_share)
           THEN Refused("transactions", txns)
           ELSE IF fault = "add.query" THEN Failed("transactions", txns)
           ELSE IF ~PortfolioExists(ports, portfolio_id)
           THEN Refused("transactions", txns)
           ELSE Done("transactions",
                     Append(txns,
                            NewTransaction(portfolio_id, ticker,
                                           transaction_type, shares,
                                           price_per_share,
                                           transaction_date))),
           FALSE)

\* the latest snapshot_date of the store, 0 for a store without snapshots
RECURSIVE Latest(_)
Latest(snaps) ==
    IF snaps = <<>> THEN 0
    ELSE LET rest == Latest(Tail(snaps))
         IN  IF Head(snaps).snapshot_date > rest
             THEN Head(snaps).snapshot_date ELSE rest

\* datetime.utcnow(): elapsed is the time since the latest snapshot, in the
\* resolution of the clock
utcnow(snaps, elapsed) == Latest(snaps) + elapsed

\* the row added to the session
NewSnapshot(snaps, portfolio_id, total_value, now) ==
    PortfolioSnapshot(Len(snaps) + 1, portfolio_id, total_value, now)

\* save_portfolio_snapshot refusing a portfolio without priced positions
save_portfolio_snapshot_NeedsPositions(ports, txns, snaps, portfolio_id, quote, now, fault) ==
    LET performance == get_portfolio_performance(ports, txns, portfolio_id,
                                                 quote, fault)
        total_value == performance.ret.val.total_current_value
    IN  Except(IF performance.raised THEN Failed("snapshots", snaps)
               ELSE IF performance.ret.isNone THEN Refused("snapshots", snaps)
               ELSE IF performance.ret.val.positions = <<>>
               THEN Refused("snapshots", snaps)
               ELSE IF fault = "snapshot.query"
               THEN Failed("snapshots", snaps)
               ELSE IF ~PortfolioExists(ports, portfolio_id)
               THEN Refused("snapshots", snaps)
               ELSE IF fault = "snapshot.date"
               THEN Failed("snapshots",
                           Append(snaps, NewSnapshot(snaps, portfolio_id,
                                                     total_value, now)))
               ELSE Done("snapshots",
                         Append(snaps, NewSnapshot(snaps, portfolio_id,
                                                   total_value, now))),
               FALSE)

\* save_portfolio_snapshot storing the amount invested
save_portfolio_snapshot_StoresCost(ports, txns, snaps, portfolio_id, quote, now, fault) ==
    LET performance == get_portfolio_performance(ports, txns, portfolio_id,
                                                 quote, fault)
        total_value == performance.ret.val.total_cost
    IN  Except(IF performance.raised THEN Failed("snapshots", snaps)
               ELSE IF performance.ret.isNone THEN Refused("snapshots", snaps)
               ELSE IF fault = "snapshot.query"
               THEN Failed("snapshots", snaps)
               ELSE IF ~PortfolioExists(ports, portfolio_id)
               THEN Refused("snapshots", snaps)
               ELSE IF fault = "snapshot.date"
               THEN Failed("snapshots",
                           Append(snaps, NewSnapshot(snaps, portfolio_id,
                                                     total_value, now)))
               ELSE Done("snapshots",
                         Append(snaps, NewSnapshot(snaps, portfolio_id,
                                                   total_value, now))),
               FALSE)

\* save_portfolio_snapshot without the check that the portfolio exists
save_portfolio_snapshot_Unchecked(ports, txns, snaps, portfolio_id, quote, now, fault) ==
    LET performance == get_portfolio_performance(ports, txns, portfolio_id,
                                                 quote, fault)
        total_value == performance.ret.val.total_current_value
    IN  Except(IF performance.raised THEN Failed("snapshots", snaps)
               ELSE IF performance.ret.isNone THEN Refused("snapshots", snaps)
               ELSE IF fault = "snapshot.query"
               THEN Failed("snapshots", snaps)
               ELSE IF fault = "snapshot.date"
               THEN Failed("snapshots",
                           Append(snaps, NewSnapshot(snaps, portfolio_id,
                                                     total_value, now)))
               ELSE Done("snapshots",
                         Append(snaps, NewSnapshot(snaps, portfolio_id,
                                                   total_value, now))),
               FALSE)

\* save_portfolio_snapshot committing without a look at the performance
save_portfolio_snapshot_CommitsAnyway(ports, txns, snaps, portfolio_id, quote, now, fault) ==
    Except(IF ~PortfolioExists(ports, portfolio_id)
           THEN Refused("snapshots", snaps)
           ELSE Done("snapshots",
                     Append(snaps, NewSnapshot(snaps, portfolio_id, Zero,
                                               now))),
           FALSE)

\* the performance, the check of the portfolio, the commit, and the print
\* that reads the committed row's snapshot_date back
save_portfolio_snapshot(ports, txns, snaps, portfolio_id, quote, now, fault) ==
    LET performance == get_portfolio_performance(ports, txns, portfolio_id,
                                                 quote, fault)
        total_value == performance.ret.val.total_current_value
    IN  Except(IF performance.raised THEN Failed("snapshots", snaps)
               ELSE IF performance.ret.isNone THEN Refused("snapshots", snaps)
               ELSE IF fault = "snapshot.query"
               THEN Failed("snapshots", snaps)
               ELSE IF ~PortfolioExists(ports, portfolio_id)
               THEN Refused("snapshots", snaps)
               ELSE IF fault = "snapshot.date"
               THEN Failed("snapshots",
                           Append(snaps, NewSnapshot(snaps, portfolio_id,
                                                     total_value, now)))
               ELSE Done("snapshots",
                         Append(snaps, NewSnapshot(snaps, portfolio_id,
                                                   total_value, now))),
               FALSE)

\* the rows of the snapshots table of one portfolio, in storage order
RECURSIVE snapshots_filter_by(_, _)
snapshots_filter_by(snaps, portfolio_id) ==
    IF snaps = <<>> THEN <<>>
    ELSE IF Head(snaps).portfolio_id = portfolio_id
         THEN <<Head(snaps)>> \o snapshots_filter_by(Tail(snaps), portfolio_id)
         ELSE snapshots_filter_by(Tail(snaps), portfolio_id)

\* InsertBySnapshotDate putting a row before the rows of its date
RECURSIVE InsertBySnapshotDate_BeforeTies(_, _)
InsertBySnapshotDate_BeforeTies(sorted, snap) ==
    IF sorted = <<>> THEN <<snap>>
    ELSE IF Head(sorted).snapshot_date < snap.snapshot_date
         THEN <<Head(sorted)>>
                  \o InsertBySnapshotDate_BeforeTies(Tail(sorted), snap)
         ELSE <<snap>> \o sorted

\* one row put into a sequence sorted by date, after the rows of its date
RECURSIVE InsertBySnapshotDate(_, _)
InsertBySnapshotDate(sorted, snap) ==
    IF sorted = <<>> THEN <<snap>>
    ELSE IF Head(sorted).snapshot_date <= snap.snapshot_date
         THEN <<Head(sorted)>> \o InsertBySnapshotDate(Tail(sorted), snap)
         ELSE <<snap>> \o sorted

\* order_by(PortfolioSnapshot.snapshot_date): ascending, ties in storage
\* order
RECURSIVE order_by_snapshot_date(_)
order_by_snapshot_date(snaps) ==
    IF snaps = <<>> THEN <<>>
    ELSE InsertBySnapshotDate(
             order_by_snapshot_date(SubSeq(snaps, 1, Len(snaps) - 1)),
             snaps[Len(snaps)])

\* the query of the history tab
list_snapshots(snaps, portfolio_id) ==
    order_by_snapshot_date(snapshots_filter_by(snaps, portfolio_id))

(***************************************************************************)
(* The calls.  last is the most recent call: its name, its arguments, the  *)
(* statement that raised during it, whether an exception left it, the      *)
(* value it returned and the price lookups it made, in order.              *)
(***************************************************************************)
Call(op, args, fault, outcome, lookups) ==
    [op |-> op, args |-> args, fault |-> fault, raised |-> outcome.raised,
     ret |-> outcome.ret, lookups |-> lookups]

\* the rows of the store
Writes(ports, txns, snaps) == Len(ports) + Len(txns) + Len(snaps)

CreatePortfolio(name, fault) ==
    LET r == create_portfolio(portfolios, name, fault)
    IN  /\ Len(portfolios) < MaxPortfolios
        /\ Writes(r.portfolios, transactions, snapshots) <= MaxWrites
        /\ portfolios' = r.portfolios
        /\ last' = Call("create_portfolio", [name |-> name], fault, r, <<>>)
        /\ UNCHANGED <<transactions, snapshots>>

AddTransaction(portfolio_id, ticker, transaction_type, shares, price_per_share, transaction_date, fault) ==
    LET r == add_transaction(portfolios, transactions, portfolio_id, ticker,
                             transaction_type, shares, price_per_share,
                             transaction_date, fault)
    IN  /\ Writes(portfolios, r.transactions, snapshots) <= MaxWrites
        /\ transactions' = r.transactions
        /\ last' = Call("add_transaction",
                        [portfolio_id |-> portfolio_id, ticker |-> ticker,
                         transaction_type |-> transaction_type,
                         shares |-> shares,
                         price_per_share |-> price_per_share,
                         transaction_date |-> transaction_date],
                        fault, r, <<>>)
        /\ UNCHANGED <<portfolios, snapshots>>

GetPortfolioHoldings(portfolio_id, fault) ==
    /\ last' = Call("get_portfolio_holdings", [portfolio_id |-> portfolio_id],
                    fault,
                    get_portfolio_holdings(portfolios, transactions,
                                           portfolio_id, fault),
                    <<>>)
    /\ UNCHANGED <<portfolios, transactions, snapshots>>

GetPortfolioPerformance(portfolio_id, quote, fault) ==
    /\ last' = Call("get_portfolio_performance",
                    [portfolio_id |-> portfolio_id], fault,
                    get_portfolio_performance(portfolios, transactions,
                                              portfolio_id, quote, fault),
                    PerformanceRun(portfolios, transactions, portfolio_id,
                                   quote, fault).lookups)
    /\ UNCHANGED <<portfolios, transactions, snapshots>>

SavePortfolioSnapshot(portfolio_id, quote, elapsed, fault) ==
    LET r == save_portfolio_snapshot(portfolios, transactions, snapshots,
                                     portfolio_id, quote,
                                     utcnow(snapshots, elapsed), fault)
    IN  /\ Writes(portfolios, transactions, r.snapshots) <= MaxWrites
        /\ snapshots' = r.snapshots
        /\ last' = Call("save_portfolio_snapshot",
                        [portfolio_id |-> portfolio_id], fault, r,
                        PerformanceRun(portfolios, transactions, portfolio_id,
                                       quote, fault).lookups)
        /\ UNCHANGED <<portfolios, transactions>>

\* the history tab reads the snapshots of the selected portfolio
ListSnapshots(portfolio_id) ==
    /\ last' = Call("list_snapshots", [portfolio_id |-> portfolio_id],
                    NoFault,
                    Return(Some(list_snapshots(snapshots, portfolio_id))),
                    <<>>)
    /\ UNCHANGED <<portfolios, transactions, snapshots>>

(***************************************************************************)
(* Spec: the five operations on a store that starts empty.                 *)
(***************************************************************************)
NameInputs == {"Tech"}

PortfolioIds == 1 .. (MaxPortfolios + 1)

AA == <<"A", "A">>

MS == <<"M", "S">>

Tickers == {AA, MS}

TickerInputs == {<<"a", "a">>, MS}

TypeInputs == {buy, <<"S", "E", "L", "L">>, <<"h", "o", "l", "d">>}

ShareInputs == {0, 1}

PriceInputs == {2}

DateInputs == {1}

QuoteInputs == [Tickers -> {NoData, Close(3)}]

ElapsedInputs == {1}

Init ==
    /\ portfolios = <<>>
    /\ transactions = <<>>
    /\ snapshots = <<>>
    /\ last = Call("none", <<>>, NoFault, Return(NoneVal), <<>>)

Create == \E name \in NameInputs : CreatePortfolio(name, NoFault)

AddTxn ==
    \E portfolio_id \in PortfolioIds, ticker \in TickerInputs,
       transaction_type \in TypeInputs, shares \in ShareInputs,
       price_per_share \in PriceInputs, transaction_date \in DateInputs :
        AddTransaction(portfolio_id, ticker, transaction_type, shares,
                       price_per_share, transaction_date, NoFault)

Holdings ==
    \E portfolio_id \in PortfolioIds :
        GetPortfolioHoldings(portfolio_id, NoFault)

Performance ==
    \E portfolio_id \in PortfolioIds, quote \in QuoteInputs :
        GetPortfolioPerformance(portfolio_id, quote, NoFault)

Snapshot ==
    \E portfolio_id \in PortfolioIds, quote \in QuoteInputs,
       elapsed \in ElapsedInputs :
        SavePortfolioSnapshot(portfolio_id, quote, elapsed, NoFault)

Next == Create \/ AddTxn \/ Holdings \/ Performance \/ Snapshot

Spec == Init /\ [][Next]_vars

(***************************************************************************)
(* SpecLedger: get_portfolio_holdings applied to every ledger of up to     *)
(* MaxLedger transactions that add_transaction can have stored for one     *)
(* portfolio.                                                              *)
(***************************************************************************)
LedgerShares == {1, 2}

LedgerPrices == {1, 2}

LedgerDates == {1, 2}

LedgerTxns ==
    {Transaction(1, ticker, transaction_type, shares, price_per_share,
                 transaction_date) :
        ticker \in Tickers, transaction_type \in {buy, sell},
        shares \in LedgerShares, price_per_share \in LedgerPrices,
        transaction_date \in LedgerDates}

InitLedger ==
    /\ portfolios = <<Portfolio(1, "Tech")>>
    /\ \E n \in 0 .. MaxLedger : transactions \in [1 .. n -> LedgerTxns]
    /\ snapshots = <<>>
    /\ last = Call("none", <<>>, NoFault, Return(NoneVal), <<>>)

HoldingsOfLedger == GetPortfolioHoldings(1, NoFault)

NextLedger == HoldingsOfLedger

SpecLedger == InitLedger /\ [][NextLedger]_vars

(***************************************************************************)
(* SpecValidate: create_portfolio and add_transaction, with arguments that *)
(* add_transaction has to reject.                                          *)
(***************************************************************************)
ValidateTickers == {<<"a", "a">>}

ValidateTypes == {buy, <<"S", "E", "L", "L">>, <<"h", "o", "l", "d">>}

ValidateShares == {-1, 0, 1}

ValidatePrices == {-1, 0, 2}

AddAnyTxn ==
    \E portfolio_id \in PortfolioIds, ticker \in ValidateTickers,
       transaction_type \in ValidateTypes, shares \in ValidateShares,
       price_per_share \in ValidatePrices :
        AddTransaction(portfolio_id, ticker, transaction_type, shares,
                       price_per_share, 1, NoFault)

NextValidate == Create \/ AddAnyTxn

SpecValidate == Init /\ [][NextValidate]_vars

(***************************************************************************)
(* SpecEvaluate: get_portfolio_performance applied, with every answer of   *)
(* the price source, to every ledger of up to MaxLedger transactions of    *)
(* one date that add_transaction can have stored for one portfolio.        *)
(***************************************************************************)
EvaluatePrices == {1, 3}

EvaluateTxns ==
    {Transaction(1, ticker, transaction_type, shares, price_per_share, 1) :
        ticker \in Tickers, transaction_type \in {buy, sell},
        shares \in LedgerShares, price_per_share \in EvaluatePrices}

InitEvaluate ==
    /\ portfolios = <<Portfolio(1, "Tech")>>
    /\ \E n \in 0 .. MaxLedger : transactions \in [1 .. n -> EvaluateTxns]
    /\ snapshots = <<>>
    /\ last = Call("none", <<>>, NoFault, Return(NoneVal), <<>>)

PerformanceOfLedger ==
    \E quote \in QuoteInputs : GetPortfolioPerformance(1, quote, NoFault)

NextEvaluate == PerformanceOfLedger

SpecEvaluate == InitEvaluate /\ [][NextEvaluate]_vars

(***************************************************************************)
(* SpecOrder: get_portfolio_holdings applied to every ledger of up to      *)
(* MaxLedger transactions of one ticker, dated over three days and stored  *)
(* in any order.                                                           *)
(***************************************************************************)
OrderDates == {1, 2, 3}

OrderTxns ==
    {Transaction(1, AA, transaction_type, shares, price_per_share, transaction_date) :
        transaction_type \in {buy, sell}, shares \in LedgerShares,
        price_per_share \in LedgerPrices, transaction_date \in OrderDates}

InitOrder ==
    /\ portfolios = <<Portfolio(1, "Tech")>>
    /\ \E n \in 0 .. MaxLedger : transactions \in [1 .. n -> OrderTxns]
    /\ snapshots = <<>>
    /\ last = Call("none", <<>>, NoFault, Return(NoneVal), <<>>)

NextOrder == HoldingsOfLedger

SpecOrder == InitOrder /\ [][NextOrder]_vars

(***************************************************************************)
(* SpecSnapshots: snapshots recorded for one or two portfolios by a clock  *)
(* that never runs backwards and may read the same time twice, and the     *)
(* history tab's listing of them.                                          *)
(***************************************************************************)
SnapshotElapsed == {0, 1}

InitSnapshots ==
    /\ \E k \in 1 .. MaxPortfolios :
           portfolios = [i \in 1 .. k |-> Portfolio(i, "Tech")]
    /\ transactions = <<>>
    /\ snapshots = <<>>
    /\ last = Call("none", <<>>, NoFault, Return(NoneVal), <<>>)

RecordSnapshot ==
    \E portfolio_id \in PortfolioIds, quote \in QuoteInputs,
       elapsed \in SnapshotElapsed :
        SavePortfolioSnapshot(portfolio_id, quote, elapsed, NoFault)

History == \E portfolio_id \in PortfolioIds : ListSnapshots(portfolio_id)

NextSnapshots == RecordSnapshot \/ History

SpecSnapshots == InitSnapshots /\ [][NextSnapshots]_vars

(***************************************************************************)
(* SpecFault: the five operations on a store that starts empty, each call  *)
(* with at most one statement that raises, and a price source that returns *)
(* a price or raises.                                                      *)
(***************************************************************************)
FaultQuotes == [Tickers -> {Close(3), HistoryRaises}]

FaultTypes == {buy, <<"h", "o", "l", "d">>}

\* the statements that a call of each function executes
CreateFaults == {NoFault, "create.commit", "create.refresh"}

AddFaults == {NoFault, "add.query"}

HoldingsFaults == {NoFault, "holdings.query"}

PerformanceFaults == HoldingsFaults \cup {"performance.frame"}

SnapshotFaults == PerformanceFaults \cup {"snapshot.query", "snapshot.date"}

FaultyCreate ==
    \E name \in NameInputs, fault \in CreateFaults :
        CreatePortfolio(name, fault)

FaultyAdd ==
    \E portfolio_id \in PortfolioIds, transaction_type \in FaultTypes,
       shares \in ShareInputs, fault \in AddFaults :
        AddTransaction(portfolio_id, AA, transaction_type, shares, 2, 1,
                       fault)

FaultyHoldings ==
    \E portfolio_id \in PortfolioIds, fault \in HoldingsFaults :
        GetPortfolioHoldings(portfolio_id, fault)

FaultyPerformance ==
    \E portfolio_id \in PortfolioIds, quote \in FaultQuotes,
       fault \in PerformanceFaults :
        GetPortfolioPerformance(portfolio_id, quote, fault)

FaultySnapshot ==
    \E portfolio_id \in PortfolioIds, quote \in FaultQuotes,
       elapsed \in ElapsedInputs, fault \in SnapshotFaults :
        SavePortfolioSnapshot(portfolio_id, quote, elapsed, fault)

NextFault ==
    FaultyCreate \/ FaultyAdd \/ FaultyHoldings \/ FaultyPerformance
        \/ FaultySnapshot

SpecFault == Init /\ [][NextFault]_vars

(***************************************************************************)
(* SpecOversell: buys and sells of one ticker, of one to three shares,     *)
(* added to one portfolio, and its holdings.                               *)
(***************************************************************************)
OversellShares == {1, 2, 3}

InitOversell ==
    /\ portfolios = <<Portfolio(1, "Tech")>>
    /\ transactions = <<>>
    /\ snapshots = <<>>
    /\ last = Call("none", <<>>, NoFault, Return(NoneVal), <<>>)

AddBuyOrSell ==
    \E transaction_type \in {buy, sell}, shares \in OversellShares,
       price_per_share \in LedgerPrices :
        AddTransaction(1, AA, transaction_type, shares, price_per_share, 1,
                       NoFault)

NextOversell == AddBuyOrSell \/ HoldingsOfLedger

SpecOversell == InitOversell /\ [][NextOversell]_vars

(***************************************************************************)
(* Properties.  What the properties compare the program with is computed   *)
(* here, on numerators and denominators, not with the program's operators. *)
(***************************************************************************)
\* a = b, a and b rationals
RatEq(a, b) == a[1] * b[2] = b[1] * a[2]

Positive(a) == a[1] * a[2] > 0

RowTickers(rows) == {rows[i].ticker : i \in DOMAIN rows}

\* the ledger that get_portfolio_holdings reads for the portfolio
LedgerOf(portfolio_id) == order_by(filter_by(transactions, portfolio_id))

\* the dict after the whole ledger
Accumulated(portfolio_id) ==
    FoldLedger(LedgerOf(portfolio_id), Len(LedgerOf(portfolio_id)))

HoldingsReturned ==
    /\ last.op = "get_portfolio_holdings"
    /\ ~last.ret.isNone

\* C1: get_portfolio_holdings on an existing portfolio has a row for a
\* ticker if and only if the shares accumulated for the ticker over the
\* whole ledger are strictly positive; a ticker that nets to zero or below
\* has no row.
C1_RowIffPositiveShares ==
    HoldingsReturned =>
        LET acc == Accumulated(last.args.portfolio_id)
            rows == last.ret.val
        IN  /\ \A i \in DOMAIN acc :
                   (acc[i].ticker \in RowTickers(rows))
                       <=> Positive(acc[i].total_shares)
            /\ RowTickers(rows) \subseteq RowTickers(acc)

\* a ticker bought and sold down to exactly zero is absent, another is held
C1_Witness ==
    /\ HoldingsReturned
    /\ \E i \in DOMAIN Accumulated(last.args.portfolio_id) :
           LET e == Accumulated(last.args.portfolio_id)[i]
           IN  /\ e.total_shares[1] = 0
               /\ e.ticker \notin RowTickers(last.ret.val)
    /\ last.ret.val # <<>>

IsBuyOf(txn, portfolio_id, ticker) ==
    /\ txn.portfolio_id = portfolio_id
    /\ txn.ticker = ticker
    /\ txn.transaction_type = buy

\* the sum of the quantities of the Buy transactions for the ticker
RECURSIVE SumShares(_, _, _)
SumShares(txns, portfolio_id, ticker) ==
    IF txns = <<>> THEN 0
    ELSE (IF IsBuyOf(Head(txns), portfolio_id, ticker)
          THEN Head(txns).shares ELSE 0)
         + SumShares(Tail(txns), portfolio_id, ticker)

\* the sum of quantity * price of the Buy transactions for the ticker
RECURSIVE SumCost(_, _, _)
SumCost(txns, portfolio_id, ticker) ==
    IF txns = <<>> THEN 0
    ELSE (IF IsBuyOf(Head(txns), portfolio_id, ticker)
          THEN Head(txns).shares * Head(txns).price_per_share ELSE 0)
         + SumCost(Tail(txns), portfolio_id, ticker)

BoughtShares(portfolio_id, ticker) ==
    SumShares(transactions, portfolio_id, ticker)

BoughtCost(portfolio_id, ticker) ==
    SumCost(transactions, portfolio_id, ticker)

OnlyBuys(portfolio_id) ==
    \A i \in DOMAIN transactions :
        transactions[i].portfolio_id = portfolio_id
            => transactions[i].transaction_type = buy

\* C2: for a ledger of Buy transactions only, get_portfolio_holdings has
\* exactly one row per bought ticker, with total_shares the sum of the
\* quantities, total_cost the sum of quantity * price and avg_cost_basis
\* their quotient, however the buys of the tickers are interleaved.
C2_BuysOnlySums ==
    (HoldingsReturned /\ OnlyBuys(last.args.portfolio_id)) =>
        LET pid == last.args.portfolio_id
            rows == last.ret.val
        IN  \A t \in Tickers :
                LET at == {i \in DOMAIN rows : rows[i].ticker = t}
                IN  IF BoughtShares(pid, t) = 0 THEN at = {}
                    ELSE /\ Cardinality(at) = 1
                         /\ \A i \in at :
                              /\ RatEq(rows[i].total_shares,
                                       <<BoughtShares(pid, t), 1>>)
                              /\ RatEq(rows[i].total_cost,
                                       <<BoughtCost(pid, t), 1>>)
                              /\ RatEq(rows[i].avg_cost_basis,
                                       <<BoughtCost(pid, t),
                                         BoughtShares(pid, t)>>)

\* three buys, the two tickers interleaved, at different prices
C2_Witness ==
    /\ HoldingsReturned
    /\ OnlyBuys(last.args.portfolio_id)
    /\ Len(transactions) = 3
    /\ transactions[1].ticker = transactions[3].ticker
    /\ transactions[1].ticker # transactions[2].ticker
    /\ transactions[1].price_per_share # transactions[3].price_per_share
    /\ Len(last.ret.val) = 2

\* the n-th transaction of the ledger is a Sell of less than what is held
PartialSell(ledger, n) ==
    LET before == FoldLedger(ledger, n - 1)
    IN  /\ ledger[n].transaction_type = sell
        /\ \E i \in DOMAIN before :
              /\ before[i].ticker = ledger[n].ticker
              /\ Positive(before[i].total_shares)
              /\ ledger[n].shares * before[i].total_shares[2]
                     < before[i].total_shares[1]

\* C3: a Sell of q processed while the ticker holds s > 0 shares, q < s,
\* takes q off the shares and q * (total_cost / s) off the total cost, so
\* total_cost / shares is the same after the Sell as before it, whatever
\* the price of the Sell.
C3_PartialSellKeepsAverage ==
    HoldingsReturned =>
        LET ledger == LedgerOf(last.args.portfolio_id)
        IN  \A n \in 1 .. Len(ledger) :
                PartialSell(ledger, n) =>
                    LET before == FoldLedger(ledger, n - 1)
                        after == FoldLedger(ledger, n)
                        q == ledger[n].shares
                    IN  \A i \in DOMAIN before :
                            before[i].ticker = ledger[n].ticker =>
                                LET s == before[i].total_shares
                                    c == before[i].total_cost
                                    s2 == after[i].total_shares
                                    c2 == after[i].total_cost
                                IN  /\ RatEq(s2, <<s[1] - q * s[2], s[2]>>)
                                    /\ RatEq(<<c2[1] * s[1], c2[2] * s[2]>>,
                                             <<c[1] * (s[1] - q * s[2]),
                                               c[2] * s[2]>>)
                                    /\ RatEq(<<c2[1] * s2[2], c2[2] * s2[1]>>,
                                             <<c[1] * s[2], c[2] * s[1]>>)

\* a partial Sell at a price that is not the average cost, which is 5/3
C3_Witness ==
    /\ HoldingsReturned
    /\ Len(LedgerOf(last.args.portfolio_id)) = 3
    /\ PartialSell(LedgerOf(last.args.portfolio_id), 3)
    /\ \E i \in DOMAIN last.ret.val :
          /\ last.ret.val[i].avg_cost_basis = <<5, 3>>
          /\ last.ret.val[i].total_shares = <<2, 1>>

\* the portfolio is in the store
Exists(portfolio_id) ==
    portfolio_id \in {portfolios[i].id : i \in DOMAIN portfolios}

\* C4: get_portfolio_holdings with a portfolio id that does not exist
\* returns None, never an empty frame, whatever the store holds.
C4_NotFoundIsNone ==
    (last.op = "get_portfolio_holdings" /\ ~Exists(last.args.portfolio_id))
        => last.ret = NoneVal

\* asked for a portfolio that is not there while another has transactions
C4_Witness ==
    /\ last.op = "get_portfolio_holdings"
    /\ ~Exists(last.args.portfolio_id)
    /\ transactions # <<>>
    /\ last.ret.isNone

\* C5: for an existing portfolio with no transaction get_portfolio_holdings
\* returns a frame without rows, not None.
C5_EmptyLedgerEmptyFrame ==
    (/\ last.op = "get_portfolio_holdings"
     /\ Exists(last.args.portfolio_id)
     /\ \A i \in DOMAIN transactions :
            transactions[i].portfolio_id # last.args.portfolio_id)
        => last.ret = Some(<<>>)

\* the portfolio asked for is empty, the other portfolio is not
C5_Witness ==
    /\ last.op = "get_portfolio_holdings"
    /\ Exists(last.args.portfolio_id)
    /\ transactions # <<>>
    /\ \A i \in DOMAIN transactions :
           transactions[i].portfolio_id # last.args.portfolio_id
    /\ last.ret = Some(<<>>)

\* the spellings of the letters of a ticker or a kind
LetterPairs ==
    {<<"a", "A">>, <<"b", "B">>, <<"e", "E">>, <<"l", "L">>, <<"m", "M">>,
     <<"s", "S">>, <<"u", "U">>, <<"y", "Y">>}

LowerLetters == {pair[1] : pair \in LetterPairs}

SameLetters(given, stored) ==
    /\ Len(given) = Len(stored)
    /\ \A i \in DOMAIN given :
          \/ given[i] = stored[i]
          \/ <<given[i], stored[i]>> \in LetterPairs
          \/ <<stored[i], given[i]>> \in LetterPairs

NoLowerLetter(str) == \A i \in DOMAIN str : str[i] \notin LowerLetters

\* the kind is buy or sell, in any case
BuyOrSell(transaction_type) ==
    SameLetters(transaction_type, buy) \/ SameLetters(transaction_type, sell)

\* C6: add_transaction returns False and leaves the stored transactions as
\* they were when the kind is neither buy nor sell, or the quantity is <= 0,
\* or the price per share is <= 0.
C6_InvalidRejected ==
    [][(/\ last'.op = "add_transaction"
        /\ \/ ~BuyOrSell(last'.args.transaction_type)
           \/ last'.args.shares <= 0
           \/ last'.args.price_per_share <= 0)
          => (last'.ret = FALSE /\ transactions' = transactions)]_vars

\* a quantity of zero, all else valid, rejected on a store with transactions
C6_Witness ==
    /\ last.op = "add_transaction"
    /\ last.args.shares = 0
    /\ last.args.price_per_share > 0
    /\ BuyOrSell(last.args.transaction_type)
    /\ Exists(last.args.portfolio_id)
    /\ last.ret = FALSE
    /\ transactions # <<>>

\* C7: add_transaction on a portfolio id that does not exist returns False
\* and stores nothing, also when kind, quantity and price are valid.
C7_NoPortfolioRejected ==
    [][(/\ last'.op = "add_transaction"
        /\ ~Exists(last'.args.portfolio_id))
          => (last'.ret = FALSE /\ transactions' = transactions)]_vars

\* valid arguments, rejected for the portfolio id alone
C7_Witness ==
    /\ last.op = "add_transaction"
    /\ ~Exists(last.args.portfolio_id)
    /\ BuyOrSell(last.args.transaction_type)
    /\ last.args.shares > 0
    /\ last.args.price_per_share > 0
    /\ portfolios # <<>>
    /\ last.ret = FALSE

\* C8: a transaction accepted by add_transaction is stored with its ticker
\* in uppercase, so every stored ticker and every ticker of the holdings is
\* uppercase.
C8_TickerUppercase ==
    /\ \A i \in DOMAIN transactions : NoLowerLetter(transactions[i].ticker)
    /\ (last.op = "add_transaction" /\ last.ret = TRUE) =>
           /\ transactions # <<>>
           /\ SameLetters(last.args.ticker,
                          transactions[Len(transactions)].ticker)
    /\ HoldingsReturned =>
           \A i \in DOMAIN last.ret.val :
               NoLowerLetter(last.ret.val[i].ticker)

\* "aa" was given and accepted, "AA" is stored
C8_Witness ==
    /\ last.op = "add_transaction"
    /\ last.ret = TRUE
    /\ last.args.ticker = <<"a", "a">>
    /\ transactions[Len(transactions)].ticker = <<"A", "A">>

\* C9: get_portfolio_performance for a portfolio that does not exist
\* returns None, not a zeroed result.
C9_NotFoundIsNoResult ==
    (last.op = "get_portfolio_performance" /\ ~Exists(last.args.portfolio_id))
        => last.ret.isNone

\* the rows of the holdings that the call priced
HeldRows(portfolio_id) ==
    LET h == get_portfolio_holdings(portfolios, transactions, portfolio_id,
                                    NoFault).ret
    IN  IF h.isNone THEN <<>> ELSE h.val

\* the lookups of the call that returned a price for the ticker
PricesOf(ticker) ==
    {last.lookups[j].price.val :
        j \in {k \in DOMAIN last.lookups :
                  /\ last.lookups[k].ticker = ticker
                  /\ ~last.lookups[k].price.isNone}}

\* sum of total_cost over the first n rows that have a price
RECURSIVE PricedCost(_, _)
PricedCost(rows, n) ==
    IF n = 0 THEN <<0, 1>>
    ELSE LET sum == PricedCost(rows, n - 1)
             c == rows[n].total_cost
         IN  IF PricesOf(rows[n].ticker) = {} THEN sum
             ELSE <<sum[1] * c[2] + c[1] * sum[2], sum[2] * c[2]>>

\* sum of shares * price over the first n rows that have a price
RECURSIVE PricedValue(_, _)
PricedValue(rows, n) ==
    IF n = 0 THEN <<0, 1>>
    ELSE LET sum == PricedValue(rows, n - 1)
             q == rows[n].total_shares
         IN  IF PricesOf(rows[n].ticker) = {} THEN sum
             ELSE LET price == CHOOSE x \in PricesOf(rows[n].ticker) : TRUE
                  IN  <<sum[1] * q[2] + price * q[1] * sum[2], sum[2] * q[2]>>

\* C10: the positions of get_portfolio_performance are exactly the held
\* tickers whose price lookup returned a price, and total_cost and
\* total_current_value are the sums of total_cost and of shares * price
\* over those positions.
C10_UnpricedExcluded ==
    (last.op = "get_portfolio_performance" /\ ~last.ret.isNone) =>
        LET rows == HeldRows(last.args.portfolio_id)
            result == last.ret.val
        IN  /\ RowTickers(result.positions)
                 = {t \in RowTickers(rows) : PricesOf(t) # {}}
            /\ Len(result.positions)
                 = Cardinality(RowTickers(result.positions))
            /\ RatEq(result.total_cost, PricedCost(rows, Len(rows)))
            /\ RatEq(result.total_current_value,
                     PricedValue(rows, Len(rows)))

\* two tickers held, one has a price and the other has none
C10_Witness ==
    /\ last.op = "get_portfolio_performance"
    /\ ~last.ret.isNone
    /\ Len(HeldRows(last.args.portfolio_id)) = 2
    /\ Len(last.ret.val.positions) = 1
    /\ Len(last.lookups) = 2
    /\ last.ret.val.total_cost[1] > 0

PerformanceReturned ==
    /\ last.op = "get_portfolio_performance"
    /\ ~last.ret.isNone

\* C11: total_gain_loss_percent is total_gain_loss_dollar / total_cost * 100
\* whenever the aggregate total cost is not 0, and 0 when it is 0.
C11_PercentUnlessZeroCost ==
    PerformanceReturned =>
        LET result == last.ret.val
            pct == result.total_gain_loss_percent
            gain == result.total_gain_loss_dollar
            cost == result.total_cost
        IN  IF cost[1] # 0
            THEN RatEq(<<pct[1] * cost[1], pct[2] * cost[2]>>,
                       <<gain[1] * 100, gain[2]>>)
            ELSE pct[1] = 0

\* C12: when an existing portfolio holds no position, the result of
\* get_portfolio_performance has no positions, its four totals are 0, and
\* no price was looked up.
C12_NoPositionsZeroResult ==
    (/\ last.op = "get_portfolio_performance"
     /\ Exists(last.args.portfolio_id)
     /\ \A i \in DOMAIN Accumulated(last.args.portfolio_id) :
            ~Positive(Accumulated(last.args.portfolio_id)[i].total_shares))
        => /\ ~last.ret.isNone
           /\ last.ret.val.positions = <<>>
           /\ last.ret.val.total_cost[1] = 0
           /\ last.ret.val.total_current_value[1] = 0
           /\ last.ret.val.total_gain_loss_dollar[1] = 0
           /\ last.ret.val.total_gain_loss_percent[1] = 0
           /\ last.lookups = <<>>

\* the only ticker of the portfolio is sold out
C12_Witness ==
    /\ last.op = "get_portfolio_performance"
    /\ Exists(last.args.portfolio_id)
    /\ Accumulated(last.args.portfolio_id) # <<>>
    /\ \A i \in DOMAIN Accumulated(last.args.portfolio_id) :
           Accumulated(last.args.portfolio_id)[i].total_shares[1] = 0
    /\ ~last.ret.isNone
    /\ last.ret.val.positions = <<>>

\* the portfolio of the call exists and holds no position
NoPositionBefore(portfolio_id) ==
    /\ Exists(portfolio_id)
    /\ \A i \in DOMAIN Accumulated(portfolio_id) :
           ~Positive(Accumulated(portfolio_id)[i].total_shares)

\* C13: save_portfolio_snapshot on an existing portfolio without positions
\* returns True and appends exactly one snapshot, of value 0.
C13_EmptySnapshotZero ==
    [][(/\ last'.op = "save_portfolio_snapshot"
        /\ NoPositionBefore(last'.args.portfolio_id))
          => /\ last'.ret = TRUE
             /\ Len(snapshots') = Len(snapshots) + 1
             /\ SubSeq(snapshots', 1, Len(snapshots)) = snapshots
             /\ snapshots'[Len(snapshots')].portfolio_id
                    = last'.args.portfolio_id
             /\ snapshots'[Len(snapshots')].total_value[1] = 0]_<<last.op, vars>>

\* a snapshot of value 0 was saved for a portfolio that is sold out
C13_Witness ==
    /\ last.op = "save_portfolio_snapshot"
    /\ last.ret = TRUE
    /\ Accumulated(last.args.portfolio_id) # <<>>
    /\ NoPositionBefore(last.args.portfolio_id)
    /\ snapshots[Len(snapshots)].total_value[1] = 0

\* C14: the value stored by a successful save_portfolio_snapshot is the sum
\* of shares * price over the positions whose price lookup succeeded.
C14_SnapshotIsMarketValue ==
    (last.op = "save_portfolio_snapshot" /\ last.ret = TRUE) =>
        LET rows == HeldRows(last.args.portfolio_id)
        IN  /\ snapshots # <<>>
            /\ snapshots[Len(snapshots)].portfolio_id
                   = last.args.portfolio_id
            /\ RatEq(snapshots[Len(snapshots)].total_value,
                     PricedValue(rows, Len(rows)))

\* two tickers held, one priced: the snapshot is the value of that one
C14_Witness ==
    /\ last.op = "save_portfolio_snapshot"
    /\ last.ret = TRUE
    /\ Len(HeldRows(last.args.portfolio_id)) = 2
    /\ Cardinality({t \in Tickers : PricesOf(t) # {}}) = 1
    /\ snapshots[Len(snapshots)].total_value = <<3, 1>>

\* C18: a successful create_portfolio appends exactly one portfolio, with
\* the given name and an identifier that no earlier portfolio has; no other
\* step changes the portfolios, so k successes leave k portfolios.
C18_CreateAddsOne ==
    [][IF last'.op = "create_portfolio" /\ ~last'.ret.isNone
       THEN /\ portfolios'
                   = Append(portfolios, [id |-> last'.ret.val,
                                         name |-> last'.args.name])
            /\ \A i \in DOMAIN portfolios :
                   portfolios[i].id # last'.ret.val
       ELSE portfolios' = portfolios]_<<last.op, vars>>

\* the second portfolio was created and has another identifier than the first
C18_Witness ==
    /\ last.op = "create_portfolio"
    /\ ~last.ret.isNone
    /\ Len(portfolios) = 2
    /\ portfolios[2].id = last.ret.val
    /\ portfolios[1].id # portfolios[2].id

\* the stored rows of one date, in storage order
OnDate(txns, d) == SelectSeq(txns, LAMBDA t : t.transaction_date = d)

\* the stored rows by ascending date, rows of one date in storage order
RECURSIVE ChronologicalUpTo(_, _)
ChronologicalUpTo(txns, d) ==
    IF d = 0 THEN <<>>
    ELSE ChronologicalUpTo(txns, d - 1) \o OnDate(txns, d)

Chronological(txns) ==
    ChronologicalUpTo(txns, CHOOSE d \in OrderDates :
                                \A e \in OrderDates : e <= d)

DistinctDates(txns) ==
    \A i, j \in DOMAIN txns :
        i # j => txns[i].transaction_date # txns[j].transaction_date

Orderings(n) ==
    {p \in [1 .. n -> 1 .. n] : \A i, j \in 1 .. n : p[i] = p[j] => i = j}

Permuted(txns, p) == [i \in 1 .. Len(txns) |-> txns[p[i]]]

\* C19: get_portfolio_holdings returns the fold of the stored transactions
\* taken by ascending date, those of one date in storage order; when the
\* dates are pairwise distinct, the same transactions stored in any other
\* order give the same holdings.
C19_FoldInDateOrder ==
    HoldingsReturned =>
        LET chron == Chronological(transactions)
        IN  /\ last.ret.val = HoldingsFrame(FoldLedger(chron, Len(chron)))
            /\ DistinctDates(transactions) =>
                   \A p \in Orderings(Len(transactions)) :
                       get_portfolio_holdings(portfolios,
                                              Permuted(transactions, p),
                                              last.args.portfolio_id,
                                              NoFault).ret
                           = last.ret

\* a Sell dated before a Buy but stored after it: it is folded first, finds
\* no shares, and the Buy is held in full
C19_Witness ==
    /\ HoldingsReturned
    /\ Len(transactions) = 2
    /\ transactions[1].transaction_type = buy
    /\ transactions[2].transaction_type = sell
    /\ transactions[2].transaction_date < transactions[1].transaction_date
    /\ Len(last.ret.val) = 1
    /\ last.ret.val[1].total_shares = <<transactions[1].shares, 1>>

\* transaction n of the ledger is a Sell met with no shares of its ticker
SellWithoutShares(ledger, n) ==
    /\ ledger[n].transaction_type = sell
    /\ \A i \in DOMAIN FoldLedger(ledger, n - 1) :
           FoldLedger(ledger, n - 1)[i].ticker = ledger[n].ticker
               => ~Positive(FoldLedger(ledger, n - 1)[i].total_shares)

\* the ledger without its transaction n
Without(ledger, n) ==
    SubSeq(ledger, 1, n - 1) \o SubSeq(ledger, n + 1, Len(ledger))

RowSet(rows) == {rows[i] : i \in DOMAIN rows}

\* C20: a Sell folded while the shares of its ticker are <= 0 leaves the
\* entry of every ticker as it was (a ticker not seen before gets an entry
\* of 0 shares and 0 cost), and the fold goes on: the holdings returned are
\* those of the ledger without that Sell.
C20_SellWithoutSharesNoOp ==
    HoldingsReturned =>
        LET ledger == LedgerOf(last.args.portfolio_id)
        IN  \A n \in DOMAIN ledger :
                SellWithoutShares(ledger, n) =>
                    LET before == FoldLedger(ledger, n - 1)
                        after == FoldLedger(ledger, n)
                    IN  /\ Len(after) >= Len(before)
                        /\ \A i \in DOMAIN before : after[i] = before[i]
                        /\ \A i \in DOMAIN after \ DOMAIN before :
                               /\ after[i].ticker = ledger[n].ticker
                               /\ after[i].total_shares[1] = 0
                               /\ after[i].total_cost[1] = 0
                        /\ RowSet(last.ret.val)
                               = RowSet(get_portfolio_holdings(
                                            portfolios, Without(ledger, n),
                                            last.args.portfolio_id,
                                            NoFault).ret.val)

\* a Sell of a ticker sold out before, with another ticker held
C20_Witness ==
    /\ HoldingsReturned
    /\ last.ret.val # <<>>
    /\ \E n \in DOMAIN LedgerOf(last.args.portfolio_id) :
           /\ SellWithoutShares(LedgerOf(last.args.portfolio_id), n)
           /\ HasTicker(FoldLedger(LedgerOf(last.args.portfolio_id), n - 1),
                        LedgerOf(last.args.portfolio_id)[n].ticker)

\* the stored snapshots of the portfolio
SnapshotsOf(portfolio_id) ==
    {snapshots[i] : i \in {j \in DOMAIN snapshots :
                              snapshots[j].portfolio_id = portfolio_id}}

NoPerformance(portfolio_id, fault) ==
    \A quote \in FaultQuotes :
        get_portfolio_performance(portfolios, transactions, portfolio_id,
                                  quote, fault).ret.isNone

\* C16: when the performance step of save_portfolio_snapshot gives no
\* result, the call returns False and the snapshots are what they were.
C16_NoResultNoSnapshot ==
    [][(/\ last'.op = "save_portfolio_snapshot"
        /\ NoPerformance(last'.args.portfolio_id, last'.fault))
          => /\ last'.ret = FALSE
             /\ snapshots' = snapshots]_<<last.op, vars>>

\* the prices of a held ticker were looked up, then the evaluation failed
C16_Witness ==
    /\ last.op = "save_portfolio_snapshot"
    /\ NoPerformance(last.args.portfolio_id, last.fault)
    /\ Exists(last.args.portfolio_id)
    /\ HeldRows(last.args.portfolio_id) # <<>>
    /\ last.lookups # <<>>
    /\ last.ret = FALSE

PerformanceKeys ==
    {"positions", "total_cost", "total_current_value",
     "total_gain_loss_dollar", "total_gain_loss_percent"}

\* C17: no call lets an exception out, whichever statement raises and
\* whatever the price source does: create_portfolio returns an id or None,
\* add_transaction and save_portfolio_snapshot return True or False,
\* get_portfolio_holdings returns a frame or None, get_portfolio_performance
\* returns the dict or None.
C17_NoFaultEscapes ==
    /\ ~last.raised
    /\ last.op = "create_portfolio"
           => (last.ret.isNone \/ last.ret.val \in 1 .. MaxPortfolios)
    /\ last.op \in {"add_transaction", "save_portfolio_snapshot"}
           => last.ret \in BOOLEAN
    /\ last.op = "get_portfolio_holdings"
           => (last.ret.isNone \/ Len(last.ret.val) >= 0)
    /\ last.op = "get_portfolio_performance"
           => (last.ret.isNone \/ DOMAIN last.ret.val = PerformanceKeys)

\* a snapshot whose price lookup raised and whose store query raised
C17_Witness ==
    /\ last.op = "save_portfolio_snapshot"
    /\ last.fault = "snapshot.query"
    /\ \E i \in DOMAIN last.lookups : last.lookups[i].price.isNone
    /\ ~last.raised
    /\ last.ret = FALSE

\* the dict after the whole ledger of the portfolio in the table txns
AccumulatedIn(txns, portfolio_id) ==
    FoldLedger(order_by(filter_by(txns, portfolio_id)),
               Len(order_by(filter_by(txns, portfolio_id))))

\* the entry of the ticker in the dict, 0 shares at 0 cost when it has none
EntryOf(acc, ticker) ==
    IF \E i \in DOMAIN acc : acc[i].ticker = ticker
    THEN acc[CHOOSE i \in DOMAIN acc : acc[i].ticker = ticker]
    ELSE [ticker |-> ticker, total_shares |-> <<0, 1>>,
          total_cost |-> <<0, 1>>]

\* the arguments are a Sell of more shares than the s > 0 that are held
IsOversell(args) ==
    /\ SameLetters(args.transaction_type, sell)
    /\ Exists(args.portfolio_id)
    /\ LET held == EntryOf(Accumulated(args.portfolio_id), AA).total_shares
       IN  /\ Positive(held)
           /\ args.shares * held[2] > held[1]

\* C21: add_transaction stores a Sell of q shares when only s > 0, s < q,
\* are held and returns True; the fold leaves s - q shares and takes
\* q * (total_cost / s) off the cost, and the ticker has no row in the
\* holdings; in every holdings result a ticker has a row exactly when its
\* shares are above zero, so later Buys bring it back.
C21_OversellAbsorbed ==
    [][/\ (last'.op = "add_transaction" /\ IsOversell(last'.args)) =>
            LET before == EntryOf(Accumulated(last'.args.portfolio_id), AA)
                after == EntryOf(AccumulatedIn(transactions',
                                               last'.args.portfolio_id), AA)
                s == before.total_shares
                c == before.total_cost
                q == last'.args.shares
            IN  /\ last'.ret = TRUE
                /\ Len(transactions') = Len(transactions) + 1
                /\ SubSeq(transactions', 1, Len(transactions)) = transactions
                /\ transactions'[Len(transactions')].shares = q
                /\ transactions'[Len(transactions')].transaction_type = sell
                /\ RatEq(after.total_shares, <<s[1] - q * s[2], s[2]>>)
                /\ after.total_shares[1] < 0
                /\ RatEq(after.total_cost,
                         <<c[1] * (s[1] - q * s[2]), c[2] * s[1]>>)
                /\ get_portfolio_holdings(portfolios', transactions',
                                          last'.args.portfolio_id,
                                          NoFault).ret.val = <<>>
       /\ (last'.op = "get_portfolio_holdings" /\ ~last'.ret.isNone) =>
            (last'.ret.val # <<>>
                <=> Positive(EntryOf(Accumulated(last'.args.portfolio_id),
                                     AA).total_shares))]_<<last.op, vars>>

\* a Sell of more shares than held was just stored: shares below zero, a
\* cost below zero, no row
C21_Witness ==
    /\ last.op = "add_transaction"
    /\ last.ret = TRUE
    /\ transactions[Len(transactions)].transaction_type = sell
    /\ Len(transactions) >= 2
    /\ Positive(EntryOf(AccumulatedIn(SubSeq(transactions, 1,
                                             Len(transactions) - 1), 1),
                        AA).total_shares)
    /\ EntryOf(Accumulated(1), AA).total_shares[1] < 0
    /\ EntryOf(Accumulated(1), AA).total_cost[1] < 0
    /\ HeldRows(1) = <<>>

\* C22: every position of a get_portfolio_performance result has
\* current_value = shares * current_price, gain_loss_dollar = current_value
\* - total_cost, and gain_loss_percent = gain_loss_dollar / total_cost * 100
\* whenever its total cost is not 0, and 0 when it is 0.
C22_PositionFigures ==
    PerformanceReturned =>
        \A i \in DOMAIN last.ret.val.positions :
            LET pos == last.ret.val.positions[i]
                value == pos.current_value
                gain == pos.gain_loss_dollar
                cost == pos.total_cost
                pct == pos.gain_loss_percent
            IN  /\ RatEq(value, <<pos.shares[1] * pos.current_price[1],
                                  pos.shares[2] * pos.current_price[2]>>)
                /\ RatEq(gain, <<value[1] * cost[2] - cost[1] * value[2],
                                 value[2] * cost[2]>>)
                /\ IF cost[1] # 0
                   THEN RatEq(<<pct[1] * cost[1], pct[2] * cost[2]>>,
                              <<gain[1] * 100, gain[2]>>)
                   ELSE pct[1] = 0

\* C23: every stored transaction has the kind 'buy' or 'sell' in lowercase,
\* a quantity above 0, a price per share above 0, a ticker without
\* lowercase letters, and the id of exactly one stored portfolio.
C23_StoredTransactionsValid ==
    \A i \in DOMAIN transactions :
        /\ transactions[i].transaction_type \in {buy, sell}
        /\ transactions[i].shares > 0
        /\ transactions[i].price_per_share > 0
        /\ NoLowerLetter(transactions[i].ticker)
        /\ Cardinality({j \in DOMAIN portfolios :
                           portfolios[j].id = transactions[i].portfolio_id})
               = 1

\* 'SELL' of "aa" was given and accepted: 'sell' of "AA" is stored, for the
\* second of two portfolios
C23_Witness ==
    /\ last.op = "add_transaction"
    /\ last.ret = TRUE
    /\ last.args.transaction_type = <<"S", "E", "L", "L">>
    /\ last.args.ticker = <<"a", "a">>
    /\ last.args.portfolio_id = 2
    /\ Len(portfolios) = 2
    /\ transactions[Len(transactions)].transaction_type = sell
    /\ transactions[Len(transactions)].ticker = AA
    /\ transactions[Len(transactions)].portfolio_id = 2

\* C24: the stored transactions are never changed or removed: after every
\* call the table begins with the rows it had; a successful add_transaction
\* adds exactly one row and no other operation adds any.
C24_LedgerAppendOnly ==
    [][/\ Len(transactions') >= Len(transactions)
       /\ SubSeq(transactions', 1, Len(transactions)) = transactions
       /\ IF last'.op = "add_transaction" /\ last'.ret = TRUE
          THEN Len(transactions') = Len(transactions) + 1
          ELSE last'.op # "add_transaction"
                   => transactions' = transactions]_<<last.op, vars>>

\* a second transaction was added after one of another portfolio
C24_Witness ==
    /\ last.op = "add_transaction"
    /\ last.ret = TRUE
    /\ Len(transactions) = 2
    /\ transactions[1].portfolio_id # transactions[2].portfolio_id

\* C25: the stored snapshots are never changed or removed, a call of
\* save_portfolio_snapshot that returns True appends exactly one snapshot,
\* and every other call, a failed save_portfolio_snapshot included, leaves
\* the snapshots as they were.
C25_SnapshotsAppendOnly ==
    [][/\ Len(snapshots') >= Len(snapshots)
       /\ SubSeq(snapshots', 1, Len(snapshots)) = snapshots
       /\ IF last'.op = "save_portfolio_snapshot" /\ last'.ret = TRUE
          THEN Len(snapshots') = Len(snapshots) + 1
          ELSE snapshots' = snapshots]_<<last.op, vars>>

\* the lookups that returned a price, in order
RECURSIVE PricedLookups(_)
PricedLookups(lookups) ==
    IF lookups = <<>> THEN <<>>
    ELSE IF Head(lookups).price.isNone THEN PricedLookups(Tail(lookups))
         ELSE <<Head(lookups)>> \o PricedLookups(Tail(lookups))

\* C26: a call of get_portfolio_performance looks up one price per row of
\* the holdings, in the order of the rows, whether or not the lookups
\* before it returned a price; the positions are the rows whose lookup
\* returned a price.
C26_OneLookupPerHolding ==
    PerformanceReturned =>
        LET rows == HeldRows(last.args.portfolio_id)
            priced == PricedLookups(last.lookups)
        IN  /\ Len(last.lookups) = Len(rows)
            /\ \A i \in DOMAIN rows : last.lookups[i].ticker = rows[i].ticker
            /\ Len(last.ret.val.positions) = Len(priced)
            /\ \A i \in DOMAIN priced :
                   /\ last.ret.val.positions[i].ticker = priced[i].ticker
                   /\ last.ret.val.positions[i].current_price
                          = <<priced[i].price.val, 1>>

\* two tickers held: the first lookup returns no price, the second does
C26_Witness ==
    /\ PerformanceReturned
    /\ Len(HeldRows(last.args.portfolio_id)) = 2
    /\ Len(last.lookups) = 2
    /\ last.lookups[1].price.isNone
    /\ ~last.lookups[2].price.isNone
    /\ Len(last.ret.val.positions) = 1

\* C27: save_portfolio_snapshot with a portfolio id that does not exist
\* returns False, and every stored snapshot has the id of a stored
\* portfolio.
C27_SnapshotsOfPortfolios ==
    /\ (last.op = "save_portfolio_snapshot"
            /\ ~Exists(last.args.portfolio_id)) => last.ret = FALSE
    /\ \A i \in DOMAIN snapshots : Exists(snapshots[i].portfolio_id)

\* refused for a portfolio id that does not exist, on a store that has a
\* portfolio with a snapshot
C27_Witness ==
    /\ last.op = "save_portfolio_snapshot"
    /\ ~Exists(last.args.portfolio_id)
    /\ last.ret = FALSE
    /\ portfolios # <<>>
    /\ snapshots # <<>>

\* the prices per share of the stored Buy transactions of the ticker
BuyPrices(portfolio_id, ticker) ==
    {transactions[i].price_per_share :
        i \in {j \in DOMAIN transactions :
                  IsBuyOf(transactions[j], portfolio_id, ticker)}}

\* C28: each row of the holdings has an avg_cost_basis between the lowest
\* and the highest price per share of the ticker's Buy transactions, and a
\* total_cost above 0.
C28_AverageWithinBuyPrices ==
    HoldingsReturned =>
        \A i \in DOMAIN last.ret.val :
            LET row == last.ret.val[i]
                prices == BuyPrices(last.args.portfolio_id, row.ticker)
                avg == row.avg_cost_basis
            IN  /\ prices # {}
                /\ \E low \in prices : low * avg[2] <= avg[1]
                /\ \E high \in prices : avg[1] <= high * avg[2]
                /\ Positive(row.total_cost)

\* the stored transactions of the portfolio, in storage order
OwnTransactions(portfolio_id) ==
    SelectSeq(transactions, LAMBDA t : t.portfolio_id = portfolio_id)

\* the stored portfolio of that id alone
OwnPortfolio(portfolio_id) ==
    SelectSeq(portfolios, LAMBDA p : p.id = portfolio_id)

\* C29: the holdings returned for a portfolio are those of a store that
\* holds that portfolio and its own transactions only: the transactions and
\* snapshots of other portfolios, and the other portfolios, do not change
\* the result.
C29_HoldingsOfOwnTransactions ==
    HoldingsReturned =>
        last.ret = get_portfolio_holdings(
                       OwnPortfolio(last.args.portfolio_id),
                       OwnTransactions(last.args.portfolio_id),
                       last.args.portfolio_id, NoFault).ret

\* holdings of a portfolio while another portfolio holds the same ticker
C29_Witness ==
    /\ HoldingsReturned
    /\ last.ret.val # <<>>
    /\ Len(portfolios) = 2
    /\ \E i, j \in DOMAIN transactions :
           /\ transactions[i].portfolio_id = last.args.portfolio_id
           /\ transactions[j].portfolio_id # last.args.portfolio_id
           /\ transactions[j].ticker = transactions[i].ticker
           /\ transactions[j].transaction_type = buy

====
